---- MODULE Spec2Model ----
(***************************************************************************)
(* Model of api/wht-pdf-generator.py: the do_POST handler, the layout      *)
(* composer of generate_verdict_pdf, the page loop of doc.build and the    *)
(* footer drawer returned by create_footer_drawer.                         *)
(*                                                                         *)
(* Text is a sequence of tokens.  A literal of the source is one token; a  *)
(* string that comes from the request is a sequence of one-character       *)
(* tokens, so that slicing ([:8]), upper() and concatenation (f-strings)   *)
(* are computed.  The module is ASCII: the bullet glyph U+2022 is written  *)
(* "(U+2022) ", the rejection glyph U+2717 "(U+2717) ", and the dashes of  *)
(* the titles are written "-".                                             *)
(***************************************************************************)
EXTENDS Integers, Sequences, FiniteSets, TLC

(***************************************************************************)
(* Bounds of the model.                                                    *)
(***************************************************************************)
NumReq == 2        \* handler instances (requests) that may be in flight
MaxClock == 1      \* wall-clock seconds the model lets pass
PageCap == 13      \* body lines one page frame holds

Req == 1..NumReq

(***************************************************************************)
(* JSON values of the request body.  k is the JSON kind; s is the text of  *)
(* a string (or the decimal digits of a number); items the entries of a    *)
(* list.                                                                   *)
(***************************************************************************)
Absent == [k |-> "absent", s |-> <<>>, items |-> <<>>]
Null == [k |-> "null", s |-> <<>>, items |-> <<>>]
Str(s) == [k |-> "str", s |-> s, items |-> <<>>]
Num(digits) == [k |-> "num", s |-> digits, items |-> <<>>]
List(items) == [k |-> "list", s |-> <<>>, items |-> items]

\* verdict: a JSON object with the sub-fields the composer reads; other is
\* "some key the composer does not read is present".  k = "str" is a
\* non-object (string) value.
VerdictObj(d, p, e, o) ==
    [k |-> "obj", gtm_description |-> d, pressure_flags |-> p,
     explanation |-> e, other |-> o]
EmptyVerdict == VerdictObj(Absent, Absent, Absent, FALSE)
AbsentVerdict == [EmptyVerdict EXCEPT !.k = "absent"]
StrVerdict == [EmptyVerdict EXCEPT !.k = "str"]

ProfileObj(dr, dn) == [k |-> "obj", core_drivers |-> dr, core_drains |-> dn]
EmptyProfile == ProfileObj(Absent, Absent)
AbsentProfile == [EmptyProfile EXCEPT !.k = "absent"]
NullProfile == [EmptyProfile EXCEPT !.k = "null"]

(***************************************************************************)
(* Python semantics used by the handler.                                   *)
(***************************************************************************)
\* dict.get(key, default): the default only replaces an absent key
Get(v, default) == IF v.k = "absent" THEN default ELSE v

\* Truthy with the test `x is None` in place of `not x`: an empty string passes
TruthyIsNotNone(v) ==
    CASE v.k = "str" -> TRUE
      [] v.k = "num" -> TRUE
      [] v.k = "list" -> TRUE
      [] OTHER -> FALSE

\* truth value of a scalar or list value (`not x` is ~Truthy(x))
Truthy(v) ==
    CASE v.k = "str" -> v.s # <<>>
      [] v.k = "num" -> v.s # <<"0">>
      [] v.k = "list" -> v.items # <<>>
      [] OTHER -> FALSE

\* truth value of the verdict value: a dict is true iff it has a key
TruthyVerdict(v) ==
    CASE v.k = "obj" -> \/ v.gtm_description.k # "absent"
                        \/ v.pressure_flags.k # "absent"
                        \/ v.explanation.k # "absent"
                        \/ v.other
      [] v.k = "str" -> TRUE
      [] OTHER -> FALSE

\* str(x) as an f-string formats it
PyStr(v) == IF v.k = "null" THEN <<"None">> ELSE v.s

\* x[:n]
Take(s, n) == SubSeq(s, 1, IF Len(s) < n THEN Len(s) ELSE n)

LowerCase == <<"a","b","c","d","e","f","g","h","i","j","k","l","m",
               "n","o","p","q","r","s","t","u","v","w","x","y","z">>
UpperCase == <<"A","B","C","D","E","F","G","H","I","J","K","L","M",
               "N","O","P","Q","R","S","T","U","V","W","X","Y","Z">>

UpperChar(c) ==
    IF \E i \in 1..26 : LowerCase[i] = c
    THEN UpperCase[CHOOSE i \in 1..26 : LowerCase[i] = c]
    ELSE c

\* str.upper()
upper(s) == [i \in 1..Len(s) |-> UpperChar(s[i])]

(***************************************************************************)
(* Flow elements.                                                          *)
(***************************************************************************)
Paragraph(text, style) ==
    [type |-> "Paragraph", text |-> text, style |-> style,
     rows |-> <<>>, box |-> "", h |-> 0]
\* Spacer(1, h*inch), h in hundredths of an inch
Spacer(h) ==
    [type |-> "Spacer", text |-> <<>>, style |-> "",
     rows |-> <<>>, box |-> "", h |-> h]
\* a Table of rows of cells; box is the colour of its BOX line and of the
\* TEXTCOLOR of its first cell ("" when the style sets none)
Table(rows, box) ==
    [type |-> "Table", text |-> <<>>, style |-> "",
     rows |-> rows, box |-> box, h |-> 0]

\* Paragraph() parses its text as markup.  The tags of the source's literals
\* are balanced (they are inside one token); a "<" token comes from the
\* request and opens a tag that is never closed, which the parser rejects.
ParaOK(text) == \A i \in 1..Len(text) : text[i] # "<"

\* the outcome of a block of statements: err is the message of the exception
\* raised (<<>> when none), els the elements appended
Ok(els) == [err |-> <<>>, els |-> els]
Raise(msg) == [err |-> msg, els |-> <<>>]

\* the result of a block of appends: the first malformed paragraph raises
Appended(els) ==
    IF \E i \in 1..Len(els) : els[i].type = "Paragraph" /\ ~ParaOK(els[i].text)
    THEN Raise(<<"xml parser error (Parse error: saw </para> instead of expected </b>) in paragraph">>)
    ELSE Ok(els)

BULLET == "(U+2022) "
CROSS == "(U+2717) "

\* for x in items: elements.append(Paragraph(f"<glyph> {x}", body_style))
Bullets(glyph, items) ==
    [i \in 1..Len(items) |-> Paragraph(<<glyph>> \o PyStr(items[i]), "body")]

\* two consecutive blocks of statements: an exception in the first hides the second
Then(r1, r2) ==
    IF r1.err # <<>> THEN r1
    ELSE IF r2.err # <<>> THEN r2
    ELSE Ok(r1.els \o r2.els)

\* iterating a value in a for loop, and calling .get / .upper on it
NotIterable(v) == v.k \notin {"list", "absent"}
NoAttribute(v, attr) ==
    Raise(<<(IF v.k = "null" THEN "'NoneType'"
             ELSE IF v.k = "num" THEN "'int'" ELSE "'str'"),
            " object has no attribute ", attr>>)

\* the fixed texts of the report
TITLE ==
    <<"FOUNDER-GTM MISERY RISK DIAGNOSTIC">>
SUBTITLE ==
    <<"Will I Hate This?">>
disclaimer_text ==
    <<"<i>This assessment does not evaluate idea quality, market size, or likelihood of success. It evaluates the risk that executing the required GTM will conflict with the founder's working preferences.</i>">>
regret_text ==
    <<"This is the point at which founders with similar profiles historically report avoidance, burnout, or abandonment.">>
does_not_say ==
    <<"This verdict does not say: (U+2022) That the idea is bad (U+2022) That the market is too small (U+2022) That someone else could not succeed with this idea (U+2022) That you should abandon the idea immediately It only states that this GTM path is statistically misaligned with how you work.">>
FINAL_1 ==
    <<"Most founders ignore this signal.">>
FINAL_2 ==
    <<"The cost is usually paid in time, not money.">>
immutable_text ==
    <<"<i>This report does not update. Re-running the assessment with different answers constitutes a different idea.</i>">>
NO_MISMATCH ==
    <<"No critical mismatches detected.">>
PRESSURE_LABEL == "<b>Active Pressure Flags:</b>"
DRIVERS_LABEL == "<b>Core Drivers:</b>"
DRAINS_LABEL == "<b>Core Drains:</b>"

(***************************************************************************)
(* The layout composer: generate_verdict_pdf, one operator per block of    *)
(* the source.  a is the record of the function's arguments.               *)
(***************************************************************************)
\* --- HEADER ---
SecHeader(a) ==
    Appended(<<Paragraph(TITLE, "title"),
               Paragraph(SUBTITLE, "subtitle")>>)

\* --- METADATA ---
SecMetadata(a) ==
    Appended(<<Table(<< << <<"Assessment ID:">>, PyStr(a.assessment_id) >>,
                        << <<"Generated:">>, a.timestamp >>,
                        << <<"Assessment Type:">>,
                           <<"Founder-GTM Misery Risk Classification">> >>,
                        << <<"Classification Integrity:">>, <<"Deterministic">> >> >>,
                     ""),
               Spacer(15)>>)

\* --- DISCLAIMER ---
SecDisclaimer(a) ==
    Appended(<<Paragraph(disclaimer_text, "body"),
               Spacer(25)>>)

LOW == <<"L","O","W">>
MODERATE == <<"M","O","D","E","R","A","T","E">>
HIGH == <<"H","I","G","H">>
SEVERE == <<"S","E","V","E","R","E">>

\* RiskColor without the upper(): risk_colors.get(risk_level, colors.black)
RiskColorCaseSensitive(s) ==
    CASE s = LOW -> "#10b981"
      [] s = MODERATE -> "#f59e0b"
      [] s = HIGH -> "#ef4444"
      [] s = SEVERE -> "#991b1b"
      [] OTHER -> "black"

\* risk_colors.get(risk_level.upper(), colors.black), risk_level a string
RiskColor(s) ==
    CASE upper(s) = LOW -> "#10b981"
      [] upper(s) = MODERATE -> "#f59e0b"
      [] upper(s) = HIGH -> "#ef4444"
      [] upper(s) = SEVERE -> "#991b1b"
      [] OTHER -> "black"

\* --- VERDICT BOX ---
SecVerdict(a) ==
    Then(Appended(<<Paragraph(<<"VERDICT">>, "heading")>>),
         IF a.risk_level.k # "str" THEN NoAttribute(a.risk_level, "'upper'")
         ELSE Appended(<<Table(<< << <<"Misery Risk: ">> \o upper(a.risk_level.s) >>,
                                  << <<"Expected mismatch between GTM requirements and founder energy profile.">> >> >>,
                               RiskColor(a.risk_level.s)),
                         Spacer(20)>>))

\* --- TIME-TO-REGRET ---
SecRegret(a) ==
    Appended(<<Paragraph(<<"Time-to-Regret: ">> \o PyStr(a.time_to_regret), "heading"),
               Paragraph(regret_text, "body"),
               Spacer(20)>>)

\* Paragraph(x, body_style) for a value x read from the request
ValueParagraph(v) ==
    IF v.k = "str" THEN Appended(<<Paragraph(v.s, "body")>>)
    ELSE NoAttribute(v, "'split'")

\* if xs: [spacer] label, then one bulleted paragraph per entry
BulletBlock(xs, lead, label) ==
    IF ~Truthy(xs) THEN Ok(<<>>)
    ELSE IF NotIterable(xs) THEN Raise(<<"object is not iterable">>)
    ELSE Appended(lead \o <<Paragraph(<<label>>, "body")>>
                       \o Bullets(BULLET, xs.items))

\* --- PRIMARY GTM SHAPE ---
SecShape(a) ==
    Then(Appended(<<Paragraph(<<"PRIMARY GTM SHAPE">>, "heading"),
                    Paragraph(<<"<b>">> \o PyStr(a.gtm_shape) \o <<"</b>">>, "body")>>),
         IF a.verdict.k # "obj" THEN NoAttribute(a.verdict, "'get'")
         ELSE Then(ValueParagraph(Get(a.verdict.gtm_description,
                       Str(<<"Classification description not available.">>))),
              Then(BulletBlock(Get(a.verdict.pressure_flags, List(<<>>)),
                               <<Spacer(10)>>, PRESSURE_LABEL),
                   Ok(<<Spacer(20)>>))))

\* SecProfile with the heading under the guard of the two lists
SecProfileGuarded(a) ==
    IF a.founder_profile.k # "obj" THEN NoAttribute(a.founder_profile, "'get'")
    ELSE IF ~Truthy(Get(a.founder_profile.core_drivers, List(<<>>)))
            /\ ~Truthy(Get(a.founder_profile.core_drains, List(<<>>)))
         THEN Ok(<<Spacer(20)>>)
         ELSE Then(Appended(<<Paragraph(<<"FOUNDER ENERGY PROFILE">>, "heading")>>),
              Then(BulletBlock(Get(a.founder_profile.core_drivers, List(<<>>)),
                               <<>>, DRIVERS_LABEL),
              Then(BulletBlock(Get(a.founder_profile.core_drains, List(<<>>)),
                               <<Spacer(10)>>, DRAINS_LABEL),
                   Ok(<<Spacer(20)>>))))

\* --- FOUNDER ENERGY PROFILE ---
SecProfile(a) ==
    Then(Appended(<<Paragraph(<<"FOUNDER ENERGY PROFILE">>, "heading")>>),
         IF a.founder_profile.k # "obj" THEN NoAttribute(a.founder_profile, "'get'")
         ELSE Then(BulletBlock(Get(a.founder_profile.core_drivers, List(<<>>)),
                               <<>>, DRIVERS_LABEL),
              Then(BulletBlock(Get(a.founder_profile.core_drains, List(<<>>)),
                               <<Spacer(10)>>, DRAINS_LABEL),
                   Ok(<<Spacer(20)>>))))

\* FlagLines without the spacer after each flag
FlagLinesNoSpacer(items) == Bullets(CROSS, items)

\* for flag in mismatch_flags: the flag paragraph, then Spacer(1, 0.05*inch)
FlagLines(items) ==
    [i \in 1..(2 * Len(items)) |->
        IF i % 2 = 1 THEN Paragraph(<<CROSS>> \o PyStr(items[(i + 1) \div 2]), "body")
        ELSE Spacer(5)]

\* --- MISMATCH FLAGS ---
SecMismatch(a) ==
    Then(Appended(<<Paragraph(<<"MISMATCH FLAGS">>, "heading")>>),
    Then(IF Truthy(a.mismatch_flags)
         THEN IF NotIterable(a.mismatch_flags) THEN Raise(<<"object is not iterable">>)
              ELSE Appended(FlagLines(a.mismatch_flags.items))
         ELSE Appended(<<Paragraph(NO_MISMATCH, "body")>>),
         Ok(<<Spacer(20)>>)))

\* --- WHY THIS VERDICT ---
SecBasis(a) ==
    Then(Appended(<<Paragraph(<<"CLASSIFICATION BASIS">>, "heading")>>),
         IF a.verdict.k # "obj" THEN NoAttribute(a.verdict, "'get'")
         ELSE Then(ValueParagraph(Get(a.verdict.explanation,
                       Str(<<"Classification basis not available.">>))),
                   Ok(<<Spacer(20)>>)))

\* --- WHAT THIS VERDICT DOES NOT SAY ---
SecDoesNotSay(a) ==
    Appended(<<Paragraph(<<"WHAT THIS VERDICT DOES NOT SAY">>, "heading"),
               Paragraph(does_not_say, "body"),
               Spacer(30)>>)

\* --- FINAL LINE ---
SecFinal(a) ==
    Appended(<<Paragraph(FINAL_1, "final"),
               Paragraph(FINAL_2, "final"),
               Spacer(20)>>)

\* --- IMMUTABILITY NOTICE ---
SecImmutable(a) ==
    Appended(<<Paragraph(immutable_text, "body")>>)

NumSections == 12

\* the n-th block of the composer, in the order of the source
Section(n, a) ==
    CASE n = 1 -> SecHeader(a)
      [] n = 2 -> SecMetadata(a)
      [] n = 3 -> SecDisclaimer(a)
      [] n = 4 -> SecVerdict(a)
      [] n = 5 -> SecRegret(a)
      [] n = 6 -> SecShape(a)
      [] n = 7 -> SecProfile(a)
      [] n = 8 -> SecMismatch(a)
      [] n = 9 -> SecBasis(a)
      [] n = 10 -> SecDoesNotSay(a)
      [] n = 11 -> SecFinal(a)
      [] n = 12 -> SecImmutable(a)

RECURSIVE ComposeFrom(_, _)
\* the blocks n..NumSections run in order; the first exception ends the call
ComposeFrom(n, a) ==
    IF n > NumSections THEN Ok(<<>>)
    ELSE Then(Section(n, a), ComposeFrom(n + 1, a))

\* elements = [] followed by every append of generate_verdict_pdf
Compose(a) == ComposeFrom(1, a)

(***************************************************************************)
(* The page renderer.  A paragraph takes one body line, a table row as     *)
(* many lines as its tallest cell, a spacer none; a table splits between   *)
(* rows only.                                                              *)
(***************************************************************************)
RECURSIVE CountNewlines(_)
CountNewlines(text) ==
    IF text = <<>> THEN 0
    ELSE (IF Head(text) = "\n" THEN 1 ELSE 0) + CountNewlines(Tail(text))

Lines(text) == 1 + CountNewlines(text)

Max(x, y) == IF x > y THEN x ELSE y

RECURSIVE RowHeight(_)
RowHeight(row) ==
    IF row = <<>> THEN 0 ELSE Max(Lines(Head(row)), RowHeight(Tail(row)))

\* the heights of the unsplittable pieces of one element
ElementBlocks(e) ==
    CASE e.type = "Paragraph" -> <<1>>
      [] e.type = "Table" -> [i \in 1..Len(e.rows) |-> RowHeight(e.rows[i])]
      [] OTHER -> <<>>

RECURSIVE Blocks(_)
Blocks(els) ==
    IF els = <<>> THEN <<>> ELSE ElementBlocks(Head(els)) \o Blocks(Tail(els))

RECURSIVE Fit(_, _, _)
\* how many of the blocks bl[from+1..] fit into room lines
Fit(bl, from, room) ==
    IF from >= Len(bl) \/ bl[from + 1] > room THEN 0
    ELSE 1 + Fit(bl, from + 1, room - bl[from + 1])

RECURSIVE Dec(_)
\* str(n) of a natural number
Dec(n) ==
    LET d == <<"0","1","2","3","4","5","6","7","8","9">>[(n % 10) + 1]
    IN IF n < 10 THEN <<d>> ELSE Append(Dec(n \div 10), d)

\* create_footer_drawer(assessment_id): the closure holds the identifier
create_footer_drawer(assessment_id) == [assessment_id |-> assessment_id]

\* draw_footer with the page number fixed when the drawer is built
draw_footer_static(drawer, docpage) ==
    <<"Will I Hate This? - Founder-GTM Misery Risk Diagnostic | Assessment ID: ">>
        \o PyStr(drawer.assessment_id) \o <<" | Page ">> \o Dec(1)

\* draw_footer(canvas_obj, doc): the text drawn, doc.page read at the call
draw_footer(drawer, docpage) ==
    <<"Will I Hate This? - Founder-GTM Misery Risk Diagnostic | Assessment ID: ">>
        \o PyStr(drawer.assessment_id) \o <<" | Page ">> \o Dec(docpage)

\* base64.b64encode(pdf_bytes).decode('utf-8')
b64encode(doc) == [b64 |-> doc]

\* datetime.now(timezone.utc).strftime('%Y-%m-%d %H:%M:%S UTC'), the clock
\* counted in seconds from 2026-01-01 00:00:00
Timestamp(c) ==
    <<"2026-01-01 00:00:">> \o (IF c < 10 THEN <<"0">> ELSE <<>>) \o Dec(c) \o <<" UTC">>

(***************************************************************************)
(* State.                                                                  *)
(***************************************************************************)
VARIABLES
    body,         \* body[r]: the parsed JSON body of request r
    pc,           \* pc[r]: where do_POST of request r stands
    clock,        \* the wall clock, in seconds
    args,         \* args[r]: the locals of do_POST passed to generate_verdict_pdf
    footer_func,  \* footer_func[r]: the drawer built by this call
    elements,     \* elements[r]: the flow elements of this call
    page,         \* page[r]: doc.page of this call's document
    placed,       \* placed[r]: blocks already laid out
    breaks,       \* breaks[r]: blocks laid out at the end of each page
    footers,      \* footers[r]: the footer text drawn on each page, in order
    pdf,          \* pdf[r]: the return value of generate_verdict_pdf
    exc,          \* exc[r]: str(e) of the exception caught by do_POST
    gen_calls,    \* gen_calls[r]: calls of generate_verdict_pdf by request r
    wire          \* wire[r]: what do_POST has sent for request r, in order

vars == <<body, pc, clock, args, footer_func, elements, page, placed, breaks,
          footers, pdf, exc, gen_calls, wire>>

NoRequest ==
    [form |-> "none", assessment_id |-> Absent, verdict |-> AbsentVerdict,
     gtm_shape |-> Absent, founder_profile |-> AbsentProfile,
     mismatch_flags |-> Absent, time_to_regret |-> Absent, risk_level |-> Absent]

\* a body that is a JSON object with these members
Object(id, v, g, fp, mf, ttr, rl) ==
    [form |-> "object", assessment_id |-> id, verdict |-> v, gtm_shape |-> g,
     founder_profile |-> fp, mismatch_flags |-> mf, time_to_regret |-> ttr,
     risk_level |-> rl]

NoArgs ==
    [assessment_id |-> Absent, timestamp |-> <<>>, verdict |-> AbsentVerdict,
     gtm_shape |-> Absent, founder_profile |-> AbsentProfile,
     mismatch_flags |-> Absent, time_to_regret |-> Absent, risk_level |-> Absent]

NoDrawer == create_footer_drawer(Absent)
NoPdf == b64encode(<<>>)

Status(code) == [t |-> "status", code |-> code]
Body(json) == [t |-> "body", json |-> json]

\* send_response(code), the headers, end_headers()
SendStatus(r, code) == wire' = [wire EXCEPT ![r] = Append(@, Status(code))]

\* send_response(code), the headers, end_headers() and wfile.write(body)
SendReply(r, code, json) ==
    wire' = [wire EXCEPT ![r] = @ \o <<Status(code), Body(json)>>]

(***************************************************************************)
(* do_POST, lines 308-320: parse the body, check assessment_id.            *)
(***************************************************************************)
ParseRequest(r) ==
    /\ pc[r] = "start"
    /\ CASE body[r].form = "badjson" ->
              /\ exc' = [exc EXCEPT ![r] = <<"Expecting value: line 1 column 1 (char 0)">>]
              /\ pc' = [pc EXCEPT ![r] = "except"]
              /\ UNCHANGED wire
         [] body[r].form = "nonobject" ->
              /\ exc' = [exc EXCEPT ![r] = <<"'list' object has no attribute 'get'">>]
              /\ pc' = [pc EXCEPT ![r] = "except"]
              /\ UNCHANGED wire
         [] OTHER ->
              IF ~Truthy(body[r].assessment_id)
              THEN /\ SendReply(r, 400, [error |-> <<"assessment_id is required">>])
                   /\ pc' = [pc EXCEPT ![r] = "done"]
                   /\ UNCHANGED exc
              ELSE /\ pc' = [pc EXCEPT ![r] = "read"]
                   /\ UNCHANGED <<exc, wire>>
    /\ UNCHANGED <<body, clock, args, footer_func, elements, page, placed,
                   breaks, footers, pdf, gen_calls>>

\* the locals of lines 323-331
Locals(b, now) ==
    [assessment_id |-> b.assessment_id,
     timestamp |-> Timestamp(now),
     verdict |-> Get(b.verdict, EmptyVerdict),
     gtm_shape |-> Get(b.gtm_shape, Str(<<"Not Classified">>)),
     founder_profile |-> Get(b.founder_profile, EmptyProfile),
     mismatch_flags |-> Get(b.mismatch_flags, List(<<>>)),
     time_to_regret |-> Get(b.time_to_regret, Str(<<"Unknown">>)),
     risk_level |-> Get(b.risk_level, Str(<<"U","N","K","N","O","W","N">>))]

\* if not verdict or not gtm_shape
VerdictMissing(a) == ~TruthyVerdict(a.verdict) \/ ~Truthy(a.gtm_shape)

(***************************************************************************)
(* do_POST, lines 322-342: timestamp, defaults, validation.                *)
(***************************************************************************)
ReadFields(r) ==
    /\ pc[r] = "read"
    /\ args' = [args EXCEPT ![r] = Locals(body[r], clock)]
    /\ IF VerdictMissing(args'[r])
       THEN /\ SendReply(r, 400, [error |-> <<"Verdict data missing. Cannot generate report.">>])
            /\ pc' = [pc EXCEPT ![r] = "done"]
       ELSE /\ pc' = [pc EXCEPT ![r] = "generate"]
            /\ UNCHANGED wire
    /\ UNCHANGED <<body, clock, footer_func, elements, page, placed, breaks,
                   footers, pdf, exc, gen_calls>>

(***************************************************************************)
(* generate_verdict_pdf, lines 60-77: buffer, document, footer drawer.     *)
(***************************************************************************)
BeginGenerate(r) ==
    /\ pc[r] = "generate"
    /\ gen_calls' = [gen_calls EXCEPT ![r] = @ + 1]
    /\ footer_func' = [footer_func EXCEPT ![r] = create_footer_drawer(args[r].assessment_id)]
    /\ elements' = [elements EXCEPT ![r] = <<>>]
    /\ pc' = [pc EXCEPT ![r] = "compose"]
    /\ UNCHANGED <<body, clock, args, page, placed, breaks, footers, pdf, exc, wire>>

(***************************************************************************)
(* generate_verdict_pdf, lines 79-283: the element sequence.               *)
(***************************************************************************)
ComposeElements(r) ==
    /\ pc[r] = "compose"
    /\ LET res == Compose(args[r])
       IN IF res.err # <<>>
          THEN /\ exc' = [exc EXCEPT ![r] = res.err]
               /\ pc' = [pc EXCEPT ![r] = "except"]
               /\ UNCHANGED elements
          ELSE /\ elements' = [elements EXCEPT ![r] = res.els]
               /\ pc' = [pc EXCEPT ![r] = "build"]
               /\ UNCHANGED exc
    /\ UNCHANGED <<body, clock, args, footer_func, page, placed, breaks,
                   footers, pdf, gen_calls, wire>>

\* onLaterPages with one drawer kept for the whole process
onLaterPagesShared(r) == footer_func[1]

\* the drawers doc.build is given for the first and for the later pages
onFirstPage(r) == footer_func[r]
onLaterPages(r) == footer_func[r]

(***************************************************************************)
(* doc.build, line 286: one page per step.  The page counter advances, the *)
(* page's drawer is called, then the frame is filled.                      *)
(***************************************************************************)
BuildPage(r) ==
    /\ pc[r] = "build"
    /\ LET k == page[r] + 1
           drawer == IF k = 1 THEN onFirstPage(r) ELSE onLaterPages(r)
           n == Fit(Blocks(elements[r]), placed[r], PageCap)
       IN /\ page' = [page EXCEPT ![r] = k]
          /\ footers' = [footers EXCEPT ![r] = Append(@, draw_footer(drawer, k))]
          /\ IF n = 0
             THEN /\ exc' = [exc EXCEPT ![r] = <<"Flowable too large on page ">> \o Dec(k)]
                  /\ pc' = [pc EXCEPT ![r] = "except"]
                  /\ UNCHANGED <<placed, breaks>>
             ELSE /\ placed' = [placed EXCEPT ![r] = @ + n]
                  /\ breaks' = [breaks EXCEPT ![r] = Append(@, placed[r] + n)]
                  /\ pc' = [pc EXCEPT ![r] =
                               IF placed[r] + n = Len(Blocks(elements[r]))
                               THEN "encode" ELSE "build"]
                  /\ UNCHANGED exc
    /\ UNCHANGED <<body, clock, args, footer_func, elements, pdf, gen_calls, wire>>

\* the finished document held by the buffer
Document(r) == [elements |-> elements[r], breaks |-> breaks[r], footers |-> footers[r]]

(***************************************************************************)
(* generate_verdict_pdf, lines 288-291: read the buffer, encode, return.   *)
(***************************************************************************)
EncodePdf(r) ==
    /\ pc[r] = "encode"
    /\ pdf' = [pdf EXCEPT ![r] = b64encode(Document(r))]
    /\ pc' = [pc EXCEPT ![r] = "respond"]
    /\ UNCHANGED <<body, clock, args, footer_func, elements, page, placed,
                   breaks, footers, exc, gen_calls, wire>>

(***************************************************************************)
(* do_POST, lines 356-360: the status line and headers of the success.     *)
(***************************************************************************)
SendSuccessHeaders(r) ==
    /\ pc[r] = "respond"
    /\ SendStatus(r, 200)
    /\ pc' = [pc EXCEPT ![r] = "body"]
    /\ UNCHANGED <<body, clock, args, footer_func, elements, page, placed,
                   breaks, footers, pdf, exc, gen_calls>>

\* Filename without the slice
FilenameWholeId(id) == <<"WHT-Diagnostic-Report-">> \o id.s \o <<".pdf">>

\* f"WHT-Diagnostic-Report-{assessment_id[:8]}.pdf", assessment_id a string
Filename(id) == <<"WHT-Diagnostic-Report-">> \o Take(id.s, 8) \o <<".pdf">>

(***************************************************************************)
(* do_POST, lines 362-371: response_data and its write.  A number cannot   *)
(* be sliced: assessment_id[:8] raises TypeError.                          *)
(***************************************************************************)
WriteSuccessBody(r) ==
    /\ pc[r] = "body"
    /\ IF args[r].assessment_id.k # "str"
       THEN /\ exc' = [exc EXCEPT ![r] = <<"'int' object is not subscriptable">>]
            /\ pc' = [pc EXCEPT ![r] = "except"]
            /\ UNCHANGED wire
       ELSE /\ wire' = [wire EXCEPT ![r] = Append(@,
                 Body([success |-> TRUE,
                       pdfAttachmentData |->
                           [filename |-> Filename(args[r].assessment_id),
                            content |-> pdf[r]]]))]
            /\ pc' = [pc EXCEPT ![r] = "done"]
            /\ UNCHANGED exc
    /\ UNCHANGED <<body, clock, args, footer_func, elements, page, placed,
                   breaks, footers, pdf, gen_calls>>

\* HandleException with one more attempt at rendering before the 500
HandleExceptionRetry(r) ==
    /\ pc[r] = "except"
    /\ IF gen_calls[r] = 1 /\ pdf[r] = NoPdf
       THEN /\ pc' = [pc EXCEPT ![r] = "generate"]
            /\ UNCHANGED wire
       ELSE /\ SendReply(r, 500, [error |-> <<"PDF Generation Failed: ">> \o exc[r]])
            /\ pc' = [pc EXCEPT ![r] = "done"]
    /\ UNCHANGED <<body, clock, args, footer_func, elements, page, placed,
                   breaks, footers, pdf, exc, gen_calls>>

(***************************************************************************)
(* do_POST, lines 373-380: except Exception as e.                          *)
(***************************************************************************)
HandleException(r) ==
    /\ pc[r] = "except"
    /\ SendReply(r, 500, [error |-> <<"PDF Generation Failed: ">> \o exc[r]])
    /\ pc' = [pc EXCEPT ![r] = "done"]
    /\ UNCHANGED <<body, clock, args, footer_func, elements, page, placed,
                   breaks, footers, pdf, exc, gen_calls>>

\* a second of wall-clock time passes.  The clock is read at line 323 only:
\* time that passes once every request has taken its timestamp is not modelled.
Tick ==
    /\ clock < MaxClock
    /\ \E r \in Req : pc[r] \in {"start", "read"}
    /\ clock' = clock + 1
    /\ UNCHANGED <<body, pc, args, footer_func, elements, page, placed, breaks,
                   footers, pdf, exc, gen_calls, wire>>

Next ==
    \/ \E r \in Req : ParseRequest(r)
    \/ \E r \in Req : ReadFields(r)
    \/ \E r \in Req : BeginGenerate(r)
    \/ \E r \in Req : ComposeElements(r)
    \/ \E r \in Req : BuildPage(r)
    \/ \E r \in Req : EncodePdf(r)
    \/ \E r \in Req : SendSuccessHeaders(r)
    \/ \E r \in Req : WriteSuccessBody(r)
    \/ \E r \in Req : HandleException(r)
    \/ Tick

(***************************************************************************)
(* Request bodies the model explores.                                      *)
(***************************************************************************)
IdX1 == <<"X","1">>
Id8 == <<"a","b","c","d","e","f","g","h">>
Id16 == <<"a","b","c","d","e","f","g","h","i","j","k","l","m","n","o","p">>
\* an identifier of so many lines that its table row exceeds a page frame
IdTall == [i \in 1..PageCap |-> "\n"]
ShapeA == <<"S","h","a","p","e","-","A">>
BadMarkup == <<"<","b",">","x">>

IdValues ==
    {Absent, Null, Str(<<>>), Str(IdX1), Str(Id8), Str(Id16), Str(IdTall),
     Num(<<"0">>), Num(<<"1","2","3","4","5">>)}

VerdictE == VerdictObj(Absent, Absent, Str(<<"E">>), FALSE)

VerdictValues ==
    {AbsentVerdict, [EmptyVerdict EXCEPT !.k = "null"], EmptyVerdict, StrVerdict,
     VerdictE,
     VerdictObj(Absent, Absent, Absent, TRUE),
     VerdictObj(Str(<<"D">>), List(<<Str(<<"P","1">>), Str(<<"P","2">>)>>), Str(<<"E">>), FALSE),
     VerdictObj(Absent, List(<<>>), Str(BadMarkup), FALSE)}

ShapeValues == {Absent, Null, Str(<<>>), Str(ShapeA)}

ProfileValues ==
    {AbsentProfile, NullProfile, EmptyProfile,
     ProfileObj(List(<<Str(<<"D","1">>)>>), List(<<Str(<<"R","1">>), Str(<<"R","2">>)>>)),
     ProfileObj(List(<<>>), List(<<Str(<<"R","1">>)>>)),
     ProfileObj(List(<<Str(<<"D","1">>), Str(<<"D","2">>)>>), Absent)}

FlagValues ==
    {Absent, Null, List(<<>>), List(<<Str(<<"F","1">>)>>),
     List(<<Str(<<"F","1">>), Str(<<"F","2">>)>>),
     List(<<Str(<<"F","2">>), Str(<<"F","1">>), Str(<<"F","2">>)>>),
     List(<<Str(BadMarkup)>>)}

RegretValues == {Absent, Str(<<"6"," ","m","o">>)}

RiskStrings ==
    {<<"l","o","w">>, <<"L","O","W">>, <<"L","o","w">>, <<"l","O","w">>,
     <<"m","o","d","e","r","a","t","e">>, <<"M","o","d","e","r","a","t","e">>,
     <<"h","i","g","h">>, <<"H","I","G","H">>,
     <<"s","e","v","e","r","e">>, <<"S","E","V","E","R","E">>,
     <<"C","R","I","T","I","C","A","L">>, <<"U","N","K","N","O","W","N">>,
     <<>>, <<"l","o">>, <<"l","o","w","s">>, <<"h","i","g","h"," ">>}

RiskValues == {Absent, Null, Num(<<"3">>)} \cup {Str(x) : x \in RiskStrings}

\* bodies that vary what the handler validates
HandlerBodies ==
    {Object(id, v, g, AbsentProfile, Absent, Absent, rl) :
        id \in IdValues, v \in VerdictValues, g \in ShapeValues,
        rl \in {Absent, Str(<<"h","i","g","h">>)}}

\* bodies that vary what the composer lays out
ComposerBodies ==
    {Object(Str(IdX1), v, Str(ShapeA), fp, mf, ttr, Absent) :
        v \in VerdictValues \ {AbsentVerdict, EmptyVerdict},
        fp \in ProfileValues, mf \in FlagValues, ttr \in RegretValues}

\* bodies that vary the risk level
RiskBodies ==
    {Object(Str(IdX1), VerdictE, Str(ShapeA), AbsentProfile, mf, Absent, rl) :
        mf \in {Absent, List(<<Str(<<"F","1">>), Str(<<"F","2">>)>>)},
        rl \in RiskValues}

\* bodies that are not a JSON object, or not JSON
OtherBodies ==
    {[NoRequest EXCEPT !.form = "nonobject"], [NoRequest EXCEPT !.form = "badjson"]}

Bodies == HandlerBodies \cup ComposerBodies \cup RiskBodies \cup OtherBodies

\* the bodies of concurrent requests: one valid report under two identifiers,
\* one without identifier, and one that is not JSON
ConcurrentBodies ==
    <<Object(Str(IdX1), VerdictE, Str(ShapeA), AbsentProfile, Absent, Absent, Absent),
      Object(Str(Id16), VerdictE, Str(ShapeA), AbsentProfile, Absent, Absent, Absent),
      Object(Absent, VerdictE, Str(ShapeA), AbsentProfile, Absent, Absent, Absent),
      [NoRequest EXCEPT !.form = "badjson"]>>

\* the state in which the requests of bs wait for their handlers
InitWith(bs) ==
    /\ body = bs
    /\ pc = [r \in Req |-> IF bs[r].form = "none" THEN "idle" ELSE "start"]
    /\ clock = 0
    /\ args = [r \in Req |-> NoArgs]
    /\ footer_func = [r \in Req |-> NoDrawer]
    /\ elements = [r \in Req |-> <<>>]
    /\ page = [r \in Req |-> 0]
    /\ placed = [r \in Req |-> 0]
    /\ breaks = [r \in Req |-> <<>>]
    /\ footers = [r \in Req |-> <<>>]
    /\ pdf = [r \in Req |-> NoPdf]
    /\ exc = [r \in Req |-> <<>>]
    /\ gen_calls = [r \in Req |-> 0]
    /\ wire = [r \in Req |-> <<>>]

\* one request, on any handler instance
Init ==
    \E r \in Req, b \in Bodies :
        InitWith([q \in Req |-> IF q = r THEN b ELSE NoRequest])

Spec == Init /\ [][Next]_vars

\* the requests of several handler instances, in flight together.  The
\* instances are interchangeable: the bodies are handed to them in the order
\* of ConcurrentBodies (0 is "no request").
InitConcurrent ==
    \E ix \in [Req -> 0..Len(ConcurrentBodies)] :
        /\ \A r \in Req \ {NumReq} : ix[r] <= ix[r + 1]
        /\ InitWith([r \in Req |->
                        IF ix[r] = 0 THEN NoRequest ELSE ConcurrentBodies[ix[r]]])

SpecConcurrent == InitConcurrent /\ [][Next]_vars

(***************************************************************************)
(* Vocabulary of the properties.                                           *)
(***************************************************************************)
Statuses(r) == SelectSeq(wire[r], LAMBDA m : m.t = "status")
BodiesSent(r) == SelectSeq(wire[r], LAMBDA m : m.t = "body")
IsSuccess(m) == m.t = "body" /\ "pdfAttachmentData" \in DOMAIN m.json
HasSuccess(r) == \E i \in 1..Len(wire[r]) : IsSuccess(wire[r][i])

ErrorReply(code, text) == <<Status(code), Body([error |-> text])>>

\* a request text without markup
Plain(v) == v.k = "str" /\ \A i \in 1..Len(v.s) : v.s[i] # "<"
PlainOrAbsent(v) == v.k = "absent" \/ Plain(v)
PlainList(v) ==
    v.k = "absent" \/ (v.k = "list" /\ \A i \in 1..Len(v.items) : Plain(v.items[i]))

\* a body of the documented shape whose texts carry no markup and whose
\* identifier fits a table row on a page
WellFormed(b) ==
    /\ b.form = "object"
    /\ Plain(b.assessment_id) /\ b.assessment_id.s # <<>>
    /\ Lines(b.assessment_id.s) <= PageCap
    /\ b.verdict.k = "obj" /\ b.verdict # EmptyVerdict
    /\ PlainOrAbsent(b.verdict.gtm_description)
    /\ PlainOrAbsent(b.verdict.explanation)
    /\ PlainList(b.verdict.pressure_flags)
    /\ Plain(b.gtm_shape) /\ b.gtm_shape.s # <<>>
    /\ b.founder_profile.k \in {"absent", "obj"}
    /\ PlainList(b.founder_profile.core_drivers)
    /\ PlainList(b.founder_profile.core_drains)
    /\ PlainList(b.mismatch_flags)
    /\ PlainOrAbsent(b.time_to_regret)
    /\ b.risk_level.k \in {"absent", "str"}

\* the call of generate_verdict_pdf for r has composed its elements
Composed(r) == pc[r] \in {"build", "encode", "respond", "body"} \/ HasSuccess(r)
\* ... and doc.build has returned
Built(r) == pc[r] \in {"encode", "respond", "body"} \/ HasSuccess(r)

Positions(els, text) == {i \in 1..Len(els) : els[i].text = text}
Position(els, text) == CHOOSE i \in Positions(els, text) : TRUE
Once(els, text) == Cardinality(Positions(els, text)) = 1

(***************************************************************************)
(* C1: a request whose body has no assessment_id (absent, null or "") is   *)
(* answered 400 {"error": "assessment_id is required"}, whatever its other *)
(* members, and generate_verdict_pdf is never called for it.               *)
(***************************************************************************)
NoAssessmentId(b) ==
    /\ b.form = "object"
    /\ \/ b.assessment_id.k \in {"absent", "null"}
       \/ b.assessment_id = Str(<<>>)

C1_MissingIdRejected ==
    \A r \in Req : NoAssessmentId(body[r]) =>
        /\ gen_calls[r] = 0
        /\ pc[r] \in {"start", "done"}
        /\ wire[r] = IF pc[r] = "done"
                     THEN ErrorReply(400, <<"assessment_id is required">>)
                     ELSE <<>>

C1_Witness ==
    \E r \in Req :
        /\ body[r].assessment_id = Str(<<>>)
        /\ body[r].form = "object"
        /\ body[r].verdict.k = "absent" /\ body[r].gtm_shape.k = "absent"
        /\ pc[r] = "done"

(***************************************************************************)
(* C2 (as claimed): with a non-empty assessment_id, a missing or empty     *)
(* verdict, or a missing or empty gtm_shape, is answered 400 {"error":     *)
(* "Verdict data missing. Cannot generate report."} and                    *)
(* generate_verdict_pdf is never called.                                   *)
(***************************************************************************)
VerdictOrShapeMissing(b) ==
    /\ b.form = "object"
    /\ b.assessment_id.k = "str" /\ b.assessment_id.s # <<>>
    /\ \/ b.verdict \in {AbsentVerdict, EmptyVerdict}
       \/ b.gtm_shape \in {Absent, Str(<<>>)}

C2_MissingVerdictRejected ==
    \A r \in Req : VerdictOrShapeMissing(body[r]) =>
        /\ gen_calls[r] = 0
        /\ pc[r] = "done" =>
              wire[r] = ErrorReply(400, <<"Verdict data missing. Cannot generate report.">>)

(***************************************************************************)
(* C3: a body with pdfAttachmentData is only sent after                    *)
(* generate_verdict_pdf has run to completion, and carries the whole       *)
(* document; an exception raised while composing or paginating is answered *)
(* 500 {"error": "PDF Generation Failed: <message>"} with nothing else,    *)
(* and the rendering is not attempted a second time.                       *)
(***************************************************************************)
RenderFailed(r) == gen_calls[r] > 0 /\ pdf[r] = NoPdf /\ pc[r] \in {"except", "done"}

C3_NoPartialOutput ==
    \A r \in Req :
        /\ gen_calls[r] <= 1
        /\ \A i \in 1..Len(wire[r]) : IsSuccess(wire[r][i]) =>
              /\ wire[r][i].json.pdfAttachmentData.content = pdf[r]
              /\ pdf[r] = [b64 |-> [elements |-> elements[r], breaks |-> breaks[r],
                                     footers |-> footers[r]]]
              /\ elements[r] # <<>>
              /\ placed[r] = Len(Blocks(elements[r]))
              /\ \A j \in 1..Len(elements[r]) :
                    elements[r][j].type = "Paragraph" => ParaOK(elements[r][j].text)
        /\ RenderFailed(r) =>
              /\ exc[r] # <<>>
              /\ ~HasSuccess(r)
              /\ wire[r] = IF pc[r] = "done"
                           THEN ErrorReply(500, <<"PDF Generation Failed: ">> \o exc[r])
                           ELSE <<>>

\* both kinds of failure have been answered: one while composing ...
C3_Witness ==
    \E r \in Req :
        /\ RenderFailed(r) /\ pc[r] = "done"
        /\ page[r] = 0

\* ... and one while paginating
C3_WitnessPaginating ==
    \E r \in Req :
        /\ RenderFailed(r) /\ pc[r] = "done"
        /\ page[r] > 0

(***************************************************************************)
(* C4: the colour of the verdict box (its border and its risk label) is    *)
(* decided by risk_level without regard to case: LOW #10b981, MODERATE     *)
(* #f59e0b, HIGH #ef4444, SEVERE #991b1b, anything else, and an absent     *)
(* risk_level, black; and no such risk_level makes the request fail.       *)
(***************************************************************************)
\* s spells key in some casing; lower is key in lower case
Spells(s, key, lower) ==
    /\ Len(s) = Len(key)
    /\ \A i \in 1..Len(s) : s[i] = key[i] \/ s[i] = lower[i]

SeverityColour(s) ==
    IF Spells(s, <<"L","O","W">>, <<"l","o","w">>) THEN "#10b981"
    ELSE IF Spells(s, <<"M","O","D","E","R","A","T","E">>,
                      <<"m","o","d","e","r","a","t","e">>) THEN "#f59e0b"
    ELSE IF Spells(s, <<"H","I","G","H">>, <<"h","i","g","h">>) THEN "#ef4444"
    ELSE IF Spells(s, <<"S","E","V","E","R","E">>, <<"s","e","v","e","r","e">>)
         THEN "#991b1b"
    ELSE "black"

VerdictBox(els) ==
    els[CHOOSE i \in 1..Len(els) : els[i].type = "Table" /\ Len(els[i].rows) = 2]

C4_SeverityColour ==
    \A r \in Req : body[r].risk_level.k \in {"absent", "str"} =>
        /\ Composed(r) =>
              VerdictBox(elements[r]).box =
                  IF body[r].risk_level.k = "absent" THEN "black"
                  ELSE SeverityColour(body[r].risk_level.s)
        /\ exc[r] # <<>> => exc[r][Len(exc[r])] # "'upper'"
        /\ (WellFormed(body[r]) /\ pc[r] = "done") => HasSuccess(r)

C4_Witness ==
    \E r \in Req :
        /\ body[r].risk_level = Str(<<"l","O","w">>)
        /\ HasSuccess(r)
        /\ VerdictBox(elements[r]).box = "#10b981"

(***************************************************************************)
(* C5: a rendered document has at least one page; the footer drawer of the *)
(* request has been called once for each page laid out so far, and its     *)
(* k-th call drew "... | Assessment ID: <id> | Page k" with the request's  *)
(* own identifier.                                                         *)
(***************************************************************************)
C5_FooterOnEveryPage ==
    \A r \in Req :
        /\ Len(footers[r]) = page[r]
        /\ \A k \in 1..Len(footers[r]) :
              footers[r][k] =
                  <<"Will I Hate This? - Founder-GTM Misery Risk Diagnostic | Assessment ID: ">>
                      \o PyStr(body[r].assessment_id) \o <<" | Page ">> \o Dec(k)
        /\ Built(r) =>
              /\ page[r] >= 1
              /\ Len(breaks[r]) = page[r]
              /\ breaks[r][page[r]] = Len(Blocks(elements[r]))

C5_Witness ==
    \E r \in Req : HasSuccess(r) /\ page[r] >= 3 /\ Len(footers[r]) = page[r]

(***************************************************************************)
(* C6: a successful request is answered 200 with {success: true,           *)
(* pdfAttachmentData: {filename, content}}, filename being                  *)
(* "WHT-Diagnostic-Report-" + the first 8 characters of assessment_id (all *)
(* of it when shorter) + ".pdf".                                           *)
(***************************************************************************)
First8(s) == [i \in 1..(IF Len(s) < 8 THEN Len(s) ELSE 8) |-> s[i]]

C6_Filename ==
    \A r \in Req : HasSuccess(r) =>
        /\ body[r].assessment_id.k = "str"
        /\ wire[r] =
              <<Status(200),
                Body([success |-> TRUE,
                      pdfAttachmentData |->
                          [filename |-> <<"WHT-Diagnostic-Report-">>
                                            \o First8(body[r].assessment_id.s)
                                            \o <<".pdf">>,
                           content |-> pdf[r]]])>>
        /\ body[r].assessment_id.s = Id16 =>
              wire[r][2].json.pdfAttachmentData.filename =
                  <<"WHT-Diagnostic-Report-","a","b","c","d","e","f","g","h",".pdf">>

C6_Witness ==
    \E r \in Req : HasSuccess(r) /\ body[r].assessment_id.s = Id16

(***************************************************************************)
(* C7: between the MISMATCH FLAGS heading and the next heading the         *)
(* composer puts, for n > 0 flags, the n paragraphs "(U+2717) <flag>" in   *)
(* input order, each followed by a small spacer, and no fallback line; for *)
(* no flags the one paragraph "No critical mismatches detected." and no    *)
(* flag line.  A well-formed body, also one with founder_profile = {} or   *)
(* without mismatch_flags, is composed without an exception.               *)
(***************************************************************************)
FlagSection(els) ==
    SubSeq(els, Position(els, <<"MISMATCH FLAGS">>) + 1,
                Position(els, <<"CLASSIFICATION BASIS">>) - 1)

ExpectedFlagSection(flags) ==
    IF flags.k = "list" /\ flags.items # <<>>
    THEN [i \in 1..(2 * Len(flags.items) + 1) |->
            IF i = 2 * Len(flags.items) + 1 THEN Spacer(20)
            ELSE IF i % 2 = 0 THEN Spacer(5)
            ELSE Paragraph(<<"(U+2717) ">> \o flags.items[(i + 1) \div 2].s, "body")]
    ELSE <<Paragraph(<<"No critical mismatches detected.">>, "body"), Spacer(20)>>

IsFlagLine(e) == e.type = "Paragraph" /\ e.text[1] = "(U+2717) "

C7_MismatchSection ==
    \A r \in Req :
        /\ Composed(r) =>
              LET els == elements[r]
                  flags == body[r].mismatch_flags
              IN /\ FlagSection(els) = ExpectedFlagSection(flags)
                 /\ \A i \in 1..Len(els) :
                       \/ /\ IsFlagLine(els[i]) \/ els[i].text = NO_MISMATCH
                          /\ Position(els, <<"MISMATCH FLAGS">>) < i
                          /\ i < Position(els, <<"CLASSIFICATION BASIS">>)
                       \/ ~IsFlagLine(els[i]) /\ els[i].text # NO_MISMATCH
        /\ WellFormed(body[r]) =>
              /\ pc[r] # "except"
              /\ pc[r] = "done" => HasSuccess(r)

C7_Witness ==
    \E r \in Req :
        /\ HasSuccess(r)
        /\ body[r].founder_profile = EmptyProfile
        /\ Len(body[r].mismatch_flags.items) = 3

C7_WitnessFallback ==
    \E r \in Req :
        /\ HasSuccess(r)
        /\ body[r].founder_profile = EmptyProfile
        /\ body[r].mismatch_flags = List(<<>>)
        /\ Once(elements[r], NO_MISMATCH)

FixedTexts(a) ==
    <<TITLE, SUBTITLE, disclaimer_text, <<"VERDICT">>,
      <<"Time-to-Regret: ">> \o PyStr(a.time_to_regret), regret_text,
      <<"PRIMARY GTM SHAPE">>, <<"FOUNDER ENERGY PROFILE">>, <<"MISMATCH FLAGS">>,
      <<"CLASSIFICATION BASIS">>, <<"WHAT THIS VERDICT DOES NOT SAY">>,
      does_not_say, FINAL_1, FINAL_2, immutable_text>>

\* the block of a guarded list: absent when the list is empty, otherwise its
\* label once, after position lo and before position hi, then the entries
GuardedBlock(els, list, label, lo, hi) ==
    IF list.k = "list" /\ list.items # <<>>
    THEN /\ Once(els, <<label>>)
         /\ lo < Position(els, <<label>>)
         /\ Position(els, <<label>>) + Len(list.items) < hi
         /\ \A j \in 1..Len(list.items) :
               els[Position(els, <<label>>) + j] =
                   Paragraph(<<"(U+2022) ">> \o list.items[j].s, "body")
    ELSE Positions(els, <<label>>) = {}

ListLen(list) == IF list.k = "list" THEN Len(list.items) ELSE 0

C9_SectionOrder ==
    \A r \in Req : Composed(r) =>
        LET els == elements[r]
            a == args[r]
            fixed == FixedTexts(a)
            at(i) == Position(els, fixed[i])
            shape == Position(els, <<"PRIMARY GTM SHAPE">>)
            profile == Position(els, <<"FOUNDER ENERGY PROFILE">>)
            mismatch == Position(els, <<"MISMATCH FLAGS">>)
        IN /\ \A i \in 1..Len(fixed) : Once(els, fixed[i])
           /\ \A i \in 1..(Len(fixed) - 1) : at(i) < at(i + 1)
           /\ at(1) = 1 /\ at(Len(fixed)) = Len(els)
           /\ els[3].type = "Table" /\ Len(els[3].rows) = 4 /\ at(3) = 5
           /\ SelectSeq(els, LAMBDA e : e.style \in {"title", "subtitle", "heading", "final"})
                 = [i \in 1..11 |->
                      Paragraph(fixed[<<1, 2, 4, 5, 7, 8, 9, 10, 11, 13, 14>>[i]],
                                <<"title", "subtitle", "heading", "heading", "heading",
                                  "heading", "heading", "heading", "heading",
                                  "final", "final">>[i])]
           /\ GuardedBlock(els, a.verdict.pressure_flags, PRESSURE_LABEL, shape, profile)
           /\ GuardedBlock(els, a.founder_profile.core_drivers, DRIVERS_LABEL,
                           profile, mismatch)
           /\ GuardedBlock(els, a.founder_profile.core_drains, DRAINS_LABEL,
                           profile + ListLen(a.founder_profile.core_drivers), mismatch)
           /\ Cardinality({i \in 1..Len(els) :
                              els[i].type = "Paragraph" /\ els[i].text[1] = "(U+2022) "})
                 = ListLen(a.verdict.pressure_flags)
                   + ListLen(a.founder_profile.core_drivers)
                   + ListLen(a.founder_profile.core_drains)

C9_Witness ==
    \E r \in Req :
        /\ HasSuccess(r)
        /\ ListLen(body[r].verdict.pressure_flags) = 2
        /\ ListLen(body[r].founder_profile.core_drivers) = 1
        /\ ListLen(body[r].founder_profile.core_drains) = 2

\* the heading of the profile section is there when both lists are empty
C9_WitnessEmptyProfile ==
    \E r \in Req :
        /\ HasSuccess(r)
        /\ body[r].founder_profile = EmptyProfile
        /\ Once(elements[r], <<"FOUNDER ENERGY PROFILE">>)

(***************************************************************************)
(* C10 (as claimed): every request is answered with one status line and    *)
(* one body; after a 200 or a 400 no second status is sent.                *)
(***************************************************************************)
C10_OneStatusPerRequest ==
    \A r \in Req :
        /\ Len(Statuses(r)) <= 1
        /\ Len(BodiesSent(r)) <= 1
        /\ pc[r] = "done" =>
              /\ Len(Statuses(r)) = 1 /\ Len(BodiesSent(r)) = 1
              /\ Statuses(r)[1].code \in {200, 400, 500}

====
